---- MODULE Spec2Model ----
(***************************************************************************)
(* Video-duration aggregators of "Calculate Total hours Local Drive".      *)
(*                                                                         *)
(* One run of one script is modelled at a time; the variable script says   *)
(* which:                                                                  *)
(*   "gen4"     1. Version 1/totalcourseduartionlocal_gen4.py  (roll-up)   *)
(*   "chapt"    2. version 2/chaptlocaldriveaidubbing_gen1.py  (threads)   *)
(*   "deepchat" 2. version 2/deepchatwithashwanthaidubbing.py  (sequential)*)
(*   "nemulti"  1. Version 1/nemultilocalduration_gen1.py (nested pools)   *)
(*   "gen3"     1. Version 1/totalhourslocal_gen3.py (course by course)    *)
(* Durations are whole seconds.  Paths are sequences of tokens, a token    *)
(* being a name or the separator SEP, so that os.path.join, str.count and  *)
(* os.path.dirname act on the text of the path as they do in Python.       *)
(***************************************************************************)
EXTENDS Integers, Sequences, FiniteSets, TLC

RECURSIVE SumSeq(_)
\* Sum of a sequence of numbers.
SumSeq(s) == IF s = <<>> THEN 0 ELSE Head(s) + SumSeq(Tail(s))

RECURSIVE SumSet(_, _)
\* Sum of g[x] over the finite set S.
SumSet(S, g) ==
  IF S = {} THEN 0
  ELSE LET x == CHOOSE y \in S : TRUE IN g[x] + SumSet(S \ {x}, g)

RECURSIVE Flatten(_)
\* Concatenation of a sequence of sequences.
Flatten(ss) == IF ss = <<>> THEN <<>> ELSE Head(ss) \o Flatten(Tail(ss))

(***************************************************************************)
(* Paths                                                                   *)
(***************************************************************************)
SEP == "/"

\* os.path.join(root, name) for a relative name.
PathJoin(p, n) ==
  IF p = <<>> THEN <<n>>
  ELSE IF p[Len(p)] = SEP THEN Append(p, n)
  ELSE p \o <<SEP, n>>

\* x.count(os.sep)
CountSep(p) == Cardinality({i \in DOMAIN p : p[i] = SEP})

RECURSIVE RStripSep(_)
\* head.rstrip(sep)
RStripSep(p) ==
  IF p # <<>> /\ p[Len(p)] = SEP THEN RStripSep(SubSeq(p, 1, Len(p) - 1)) ELSE p

\* os.path.dirname(p): cut after the last separator, then drop the trailing
\* separators of the head unless the head is made of separators only.
Dirname(p) ==
  LET seps == {i \in DOMAIN p : p[i] = SEP}
      i    == IF seps = {} THEN 0 ELSE CHOOSE k \in seps : \A j \in seps : j <= k
      head == SubSeq(p, 1, i)
  IN IF head # <<>> /\ RStripSep(head) # <<>> THEN RStripSep(head) ELSE head

RECURSIVE LStripSep(_)
LStripSep(p) == IF p # <<>> /\ Head(p) = SEP THEN LStripSep(Tail(p)) ELSE p

\* s.strip(os.sep)
StripSep(p) == LStripSep(RStripSep(p))

RECURSIVE Replace(_, _)
\* s.replace(old, ""): every occurrence of old, left to right, is dropped.
Replace(p, old) ==
  IF old = <<>> \/ Len(p) < Len(old) THEN p
  ELSE IF SubSeq(p, 1, Len(old)) = old
    THEN Replace(SubSeq(p, Len(old) + 1, Len(p)), old)
    ELSE <<Head(p)>> \o Replace(Tail(p), old)

\* The order of the strings that occur as tokens: os.sep is smaller than
\* every letter, upper case is smaller than lower case.
Rank(t) ==
  CASE t = SEP -> 0
    [] t = "A" -> 1
    [] t = "B" -> 2
    [] t = "C" -> 3
    [] t = "D" -> 4
    [] t = "clip" -> 5
    [] t = "notes" -> 6
    [] t = "root" -> 7
    [] OTHER -> 8

RECURSIVE PathLess(_, _)
\* p < r as Python compares strings: the first difference decides, a proper
\* prefix is the smaller.
PathLess(p, r) ==
  IF p = <<>> THEN r # <<>>
  ELSE IF r = <<>> THEN FALSE
  ELSE IF Head(p) = Head(r) THEN PathLess(Tail(p), Tail(r))
  ELSE Rank(Head(p)) < Rank(Head(r))

\* sorted(S) for a set of distinct paths: the i-th is the one with i - 1
\* smaller ones.
SortedPaths(S) ==
  [i \in 1..Cardinality(S) |->
     CHOOSE x \in S : Cardinality({y \in S : PathLess(y, x)}) = i - 1]

\* Durations are floats: the formatting functions take their argument in
\* tenths of a second, so x // 3600 is seconds \div 36000 and int(x % 60) is
\* (seconds % 600) \div 10.

\* Mutant: the seconds are rounded to the nearest whole number.
format_time_hms_rounded(seconds) ==
  [hours   |-> seconds \div 36000,
   minutes |-> (seconds % 36000) \div 600,
   secs    |-> ((seconds % 600) + 5) \div 10]

\* format_time_hms(seconds): the hours, minutes and seconds it prints.
format_time_hms(seconds) ==
  [hours   |-> seconds \div 36000,
   minutes |-> (seconds % 36000) \div 600,
   secs    |-> (seconds % 600) \div 10]

\* format_duration(seconds) of the dedup scanner: the numbers of its
\* HH:MM:SS.
format_duration(seconds) ==
  [hours   |-> seconds \div 36000,
   minutes |-> (seconds % 36000) \div 600,
   secs    |-> (seconds % 600) \div 10]

(***************************************************************************)
(* Files                                                                   *)
(***************************************************************************)
\* str.lower() on the extensions that occur.
Lower(ext) ==
  CASE ext = ".MP4" -> ".mp4"
    [] ext = ".MOV" -> ".mov"
    [] ext = ".Mov" -> ".mov"
    [] OTHER -> ext

\* file.lower().endswith((".mp4", ".mov"))
IsVideoLower(f) == Lower(f.ext) \in {".mp4", ".mov"}

\* Mutant: the except branch hands back the clip's length instead of 0.
get_video_duration_no_zero(f) == f.dur

\* get_video_duration of gen4: the clip's duration, 0 when opening it raises.
get_video_duration(f) == IF f.ok THEN f.dur ELSE 0

(***************************************************************************)
(* Dictionaries                                                            *)
(***************************************************************************)
EmptyMap == [x \in {} |-> 0]

\* d[k] = v
Put(d, k, v) == [x \in DOMAIN d \cup {k} |-> IF x = k THEN v ELSE d[x]]

\* The injective sequences that list the set S: the orders a directory
\* listing may come in.
Listings(S) ==
  {s \in [1..Cardinality(S) -> S] : \A i, j \in DOMAIN s : i # j => s[i] # s[j]}

(***************************************************************************)
(* Directory trees (input of gen4)                                         *)
(***************************************************************************)
\* Deepest chain of nested folders below the root: root/A/B is 3 levels.
MaxDepth == 2

Chain == <<"A", "B", "D">>

ChainDirs == {SubSeq(Chain, 1, k) : k \in 0..(IF MaxDepth < 3 THEN MaxDepth ELSE 3)}

\* Folders are named by the names on the way down from the root.
AllDirs == ChainDirs \cup {<<"C">>}

IsParent(d, c) == Len(c) = Len(d) + 1 /\ SubSeq(c, 1, Len(d)) = d

Trees ==
  {T \in SUBSET AllDirs :
     /\ <<>> \in T
     /\ \A c \in T : c = <<>> \/ SubSeq(c, 1, Len(c) - 1) \in T}

\* Seconds of the one video of folder d; sums of distinct folders differ.
DurOf(d) ==
  CASE d = <<>> -> 40
    [] d = <<"A">> -> 10
    [] d = <<"A", "B">> -> 20
    [] d = <<"C">> -> 5
    [] OTHER -> 80

Video(n, e, secs, good) == [name |-> n, ext |-> e, dur |-> secs, ok |-> good]

\* What a folder may hold: nothing, one video, or one video whose probe
\* fails.  Folder C holds a text file and an upper-case .MOV besides its
\* video.
FileOptions == {"none", "video", "broken"}

FilesOf(d, o) ==
  CASE o = "none" -> <<>>
    [] o = "video" /\ d # <<"C">> -> <<Video("vid", ".mp4", DurOf(d), TRUE)>>
    [] o = "video" /\ d = <<"C">> ->
         <<Video("notes", ".txt", 3, TRUE), Video("vid", ".mp4", DurOf(d), TRUE),
           Video("clip", ".MOV", 1, TRUE)>>
    [] OTHER -> <<Video("vid", ".mov", DurOf(d), FALSE)>>

\* The forms of the root path passed as folder_path.
RootForms == { <<"root">>, <<"root", SEP>> }

(***************************************************************************)
(* State                                                                   *)
(***************************************************************************)
VARIABLES
  script,            \* which script runs
  unreadable,        \* the directories whose listing fails (no permission,
                     \* or a root that does not exist)
  \* ---- gen4: traverse_folder ----
  folder_path,       \* argument: the root path
  dirs,              \* the folders of the tree
  content,           \* folder -> its files, in listing order
  walkStack,         \* os.walk: folders still to be yielded, next first
  futures,           \* submitted process_folder tasks, in submission order
  collected,         \* number of futures whose result() was taken
  folder_durations,  \* dict root path -> seconds
  sorted_folders,    \* the roll-up order
  rollIdx,           \* number of folders the roll-up loop has handled
  rows,              \* the rows written to the log and, after its header,
                     \* to the CSV
  g4pc,              \* "walk", "collect", "sort", "rollup", "report",
                     \* "done", "idle"
  \* ---- chapt: scan_folder, process_videos, main ----
  files,             \* the video files found by the walk, in walk order
  numThreads,        \* min(8, os.cpu_count())
  q,                 \* queue.Queue: indices into files, oldest first
  unfinished,        \* q.unfinished_tasks
  tpc,               \* worker -> "loop", "get", "lock1", "crit1", "lock2",
                     \*           "read", "write", "done"
  cur,               \* worker -> index of the file it holds, 0 for none
  file_hash,         \* worker -> hash of that file
  duration,          \* worker -> duration of that file
  acc,               \* worker -> the value of results[folder] it read
  duplicates,        \* set of hashes seen
  results,           \* defaultdict folder -> seconds
  order,             \* the keys of results in insertion order
  lock,              \* threading.Lock: its holder, 0 when free
  added,             \* history: indices of the files added to results
  joined,            \* number of threads main has joined
  total_duration,    \* main: sum(results.values())
  mainpc,            \* "join", "returned", "reported", "idle"
  \* ---- deepchat: scan_folder (input: files, exts, hanging) ----
  exts,              \* file -> the extension of its name, as it is written
  hanging,           \* the files on which ffprobe never exits
  scanIdx,           \* number of files the walk loop has handled
  file_hashes,       \* defaultdict hash -> list of file indices
  sq_folder_durations, \* defaultdict folder -> seconds
  sq_total_duration, \* total_duration
  duplicate_duration,
  dedup_total,       \* "Content Duration After Removing Duplicates"
  probes,            \* history: file -> number of get_video_duration calls
  logged,            \* file -> the duration the duplicates log shows for it
  sqpc,              \* "scan", "probing", "dups", "summary", "done",
                     \* "aborted", "idle"
  \* ---- nemulti: traverse_folder, process_videos_in_folder ----
  nmFolders,         \* the folders in walk order: videos and other files
  nmNext,            \* index of the folder os.walk yields next
  nmFutures,         \* submitted process_videos_in_folder tasks
  nmCollected,       \* number of futures whose result() was taken
  nm_folder_durations,
  nm_total_duration,
  nmpc,              \* "walk", "collect", "done", "idle"
  \* ---- gen3: traverse_folder (input: folder_path, dirs, content) ----
  listing,           \* sorted(os.listdir(folder_path))
  listIdx,           \* number of entries the course loop has handled
  course_durations,  \* dict course folder name -> seconds
  g3_total_duration, \* total_duration
  g3pc,              \* "courses", "done", "idle"
  \* ---- format: one call of each formatting function ----
  fmt_seconds,       \* argument: a duration, in tenths of a second
  fmt_hms,           \* what format_time_hms printed
  fmt_duration,      \* what format_duration printed
  fmt_called,        \* the functions that were called
  \* ---- gdrive: traverse_folder of the Google Drive scanner ----
  gdListing,         \* the entries of the root folder on the drive
  gdPageSize,        \* most entries the Drive API puts in one result page
  gd_total_duration, \* main: what traverse_folder returned
  gdpc,              \* "traverse", "report", "done", "idle"
  \* ---- youtube: UploadApp and UploadWorker of youtube_gen5.py ----
  total_videos,      \* len(videos): the sorted list has videos 0..total_videos-1
  resume_file,       \* the number in resume_state.txt, -1 while there is no file
  resume_state_input, \* the number in the GUI's resume field, -1 while blank
  running,           \* UploadWorker.running
  paused,            \* UploadWorker.paused
  start_index,       \* run: start_index
  yt_i,              \* run: the loop variable i
  uploaded_count,    \* UploadWorker.uploaded_count
  upload_raised,     \* history: an upload of this run raised
  finished_signal,   \* what finished_signal emitted: "none", "True", "False"
  on_youtube,        \* history: video -> number of its uploads that completed
  runs,              \* number of workers started
  ytpc,              \* "ready", "check", "pause", "quota", "insert",
                     \* "playlist", "end", "finished", "idle"
  \* ---- convert: folder conversion of gemini_converter_v1.py ----
  video_files,       \* process_folder: number of videos found, 1..video_files
  cvIdx,             \* process_folder: videos the loop has handled
  converted_files,   \* ConversionWorker.converted_files
  output,            \* video -> its output file: "none", "partial", "complete"
  is_aborted,        \* BaseWorker._is_aborted
  completed,         \* history: videos whose ffmpeg ended with return code 0
  cvpc               \* "loop", "ffmpeg", "finished", "done", "idle"

g4vars == <<folder_path, dirs, content, walkStack, futures, collected,
            folder_durations, sorted_folders, rollIdx, rows, g4pc>>

thvars == <<files, numThreads, q, unfinished, tpc, cur, file_hash, duration,
            acc, duplicates, results, order, lock, added, joined, total_duration,
            mainpc>>

sqvars == <<exts, hanging, scanIdx, file_hashes, sq_folder_durations,
            sq_total_duration, duplicate_duration, dedup_total, probes, logged,
            sqpc>>

nmvars == <<nmFolders, nmNext, nmFutures, nmCollected, nm_folder_durations,
            nm_total_duration, nmpc>>

g3vars == <<listing, listIdx, course_durations, g3_total_duration, g3pc>>

fmvars == <<fmt_seconds, fmt_hms, fmt_duration, fmt_called>>

\* The scripts outside the folder scanners.
gdvars == <<gdListing, gdPageSize, gd_total_duration, gdpc>>

ytvars == <<total_videos, resume_file, resume_state_input, running, paused,
            start_index, yt_i, uploaded_count, upload_raised, finished_signal,
            on_youtube, runs, ytpc>>

cvvars == <<video_files, cvIdx, converted_files, output, is_aborted,
            completed, cvpc>>

extvars == <<fmvars, gdvars, ytvars, cvvars>>

\* The folder scanners.
scanvars == <<unreadable, g4vars, g3vars, thvars, sqvars, nmvars>>

vars == <<script, scanvars, extvars>>

(***************************************************************************)
(* gen4: totalcourseduartionlocal_gen4.py                                  *)
(***************************************************************************)
max_workers == 11

RECURSIVE process_folder_loop(_, _)
process_folder_loop(fs, folder_duration) ==
  IF fs = <<>> THEN folder_duration
  ELSE process_folder_loop(
         Tail(fs),
         IF IsVideoLower(Head(fs))
           THEN folder_duration + get_video_duration(Head(fs))
           ELSE folder_duration)

\* process_folder(root, files): the summed duration of the folder's videos.
process_folder(fs) == process_folder_loop(fs, 0)

\* Mutant: the sort without reverse=True, shallowest first.
SortByDepthAsc(keys) ==
  LET maxc == IF keys = <<>> THEN 0
              ELSE CHOOSE m \in {CountSep(keys[i]) : i \in DOMAIN keys} :
                     \A i \in DOMAIN keys : CountSep(keys[i]) <= m
      level(k) == SelectSeq(keys, LAMBDA x : CountSep(x) = k)
  IN Flatten([j \in 1..(maxc + 1) |-> level(j - 1)])

\* sorted(keys, key=lambda x: x.count(os.sep), reverse=True): stable, so
\* keys of equal count keep their order.
SortByDepthDesc(keys) ==
  LET maxc == IF keys = <<>> THEN 0
              ELSE CHOOSE m \in {CountSep(keys[i]) : i \in DOMAIN keys} :
                     \A i \in DOMAIN keys : CountSep(keys[i]) <= m
      level(k) == SelectSeq(keys, LAMBDA x : CountSep(x) = k)
  IN Flatten([j \in 1..(maxc + 1) |-> level(maxc + 1 - j)])

\* What the formatting functions print for 0.
ZeroTime == [hours |-> 0, minutes |-> 0, secs |-> 0]

IdleFormat ==
  /\ fmt_seconds = 0 /\ fmt_hms = ZeroTime /\ fmt_duration = ZeroTime
  /\ fmt_called = {}

IdleGdrive ==
  /\ gdListing = <<>> /\ gdPageSize = 0 /\ gd_total_duration = 0
  /\ gdpc = "idle"

IdleYoutube ==
  /\ total_videos = 0 /\ resume_file = -1 /\ resume_state_input = -1
  /\ running = FALSE /\ paused = FALSE /\ start_index = 0 /\ yt_i = 0
  /\ uploaded_count = 0 /\ upload_raised = FALSE /\ finished_signal = "none"
  /\ on_youtube = <<>> /\ runs = 0 /\ ytpc = "idle"

IdleConvert ==
  /\ video_files = 0 /\ cvIdx = 0 /\ converted_files = <<>>
  /\ output = <<>> /\ is_aborted = FALSE /\ completed = {} /\ cvpc = "idle"

IdleExt == IdleFormat /\ IdleGdrive /\ IdleYoutube /\ IdleConvert

IdleGen3 ==
  /\ listing = <<>> /\ listIdx = 0 /\ course_durations = EmptyMap
  /\ g3_total_duration = 0 /\ g3pc = "idle"

IdleDeepchat ==
  /\ exts = <<>> /\ hanging = {}
  /\ scanIdx = 0 /\ file_hashes = EmptyMap /\ sq_folder_durations = EmptyMap
  /\ sq_total_duration = 0 /\ duplicate_duration = 0 /\ dedup_total = 0
  /\ probes = <<>> /\ logged = EmptyMap
  /\ sqpc = "idle"

IdleNemulti ==
  /\ nmFolders = <<>> /\ nmNext = 0 /\ nmFutures = <<>> /\ nmCollected = 0
  /\ nm_folder_durations = EmptyMap /\ nm_total_duration = 0 /\ nmpc = "idle"

IdleChapt ==
  /\ files = <<>> /\ numThreads = 0 /\ q = <<>> /\ unfinished = 0
  /\ tpc = <<>> /\ cur = <<>> /\ file_hash = <<>> /\ duration = <<>>
  /\ acc = <<>> /\ duplicates = {} /\ results = EmptyMap /\ order = <<>>
  /\ lock = 0
  /\ added = {} /\ joined = 0 /\ total_duration = 0 /\ mainpc = "idle"

\* Mutant: every directory can be listed.
scandir_fails_never(U, d) == FALSE

\* os.walk: scandir(top) raises OSError for a directory that cannot be
\* listed; with the default onerror=None the walk drops the error and yields
\* nothing for that directory.
scandir_fails(U, d) == d \in U

\* The directory that may fail to list in a run: the root, or its
\* subfolder A with everything below it.
UnreadableDirs == { <<>>, <<"A">> }

\* The pool is made, then the walk loop is over: the futures loop follows and
\* is left at once when nothing was submitted.
AfterWalk(fs) == IF fs = <<>> THEN "sort" ELSE "collect"

InitGen4 ==
  /\ script = "gen4"
  /\ IdleExt
  /\ IdleGen3
  /\ IdleChapt /\ IdleDeepchat /\ IdleNemulti
  /\ folder_path \in RootForms
  /\ dirs \in Trees
  /\ unreadable \in {{}} \cup {{d} : d \in dirs \cap UnreadableDirs}
  /\ rows = <<>>
  /\ \E o \in [dirs -> FileOptions] :
       content = [d \in dirs |-> FilesOf(d, o[d])]
  /\ walkStack = <<[dir |-> <<>>, path |-> folder_path]>>
  /\ futures = <<>>
  /\ collected = 0
  /\ folder_durations = EmptyMap
  /\ sorted_folders = <<>>
  /\ rollIdx = 0
  /\ g4pc = "walk"

\* One turn of "for root, _, files in os.walk(folder_path)": the walk yields
\* the next folder top-down, its subfolders follow in listing order, and the
\* folder's task is submitted to the pool.
WalkSubmit ==
  /\ script = "gen4" /\ g4pc = "walk" /\ walkStack # <<>>
  /\ LET top  == Head(walkStack)
         kids == {c \in dirs : IsParent(top.dir, c)}
     IN IF scandir_fails(unreadable, top.dir)
          THEN /\ walkStack' = Tail(walkStack)
               /\ UNCHANGED futures
               /\ g4pc' = IF Tail(walkStack) = <<>> THEN AfterWalk(futures)
                                                    ELSE "walk"
          ELSE \E sub \in Listings(kids) :
                 LET below == [i \in DOMAIN sub |->
                                 [dir |-> sub[i],
                                  path |-> PathJoin(top.path,
                                             sub[i][Len(sub[i])])]]
                     rest  == below \o Tail(walkStack)
                     subm  == Append(futures,
                                [root |-> top.path, files |-> content[top.dir],
                                 state |-> "pending", result |-> 0])
                 IN /\ walkStack' = rest
                    /\ futures' = subm
                    /\ g4pc' = IF rest = <<>> THEN AfterWalk(subm) ELSE "walk"
  /\ UNCHANGED <<thvars, sqvars, nmvars, script, unreadable, extvars, g3vars, rows, folder_path, dirs, content, collected,
                 folder_durations, sorted_folders, rollIdx>>

\* A free pool process takes the oldest waiting task.
TaskStart ==
  /\ script = "gen4"
  /\ \E i \in DOMAIN futures :
       /\ futures[i].state = "pending"
       /\ \A j \in 1..(i - 1) : futures[j].state # "pending"
       /\ Cardinality({j \in DOMAIN futures : futures[j].state = "running"})
            < max_workers
       /\ futures' = [futures EXCEPT ![i].state = "running"]
  /\ UNCHANGED <<thvars, sqvars, nmvars, script, unreadable, extvars, g3vars, rows, folder_path, dirs, content, walkStack, collected,
                 folder_durations, sorted_folders, rollIdx, g4pc>>

\* process_folder returns in its pool process.
TaskFinish ==
  /\ script = "gen4"
  /\ \E i \in DOMAIN futures :
       /\ futures[i].state = "running"
       /\ futures' = [futures EXCEPT ![i].state = "done",
                                     ![i].result = process_folder(futures[i].files)]
  /\ UNCHANGED <<thvars, sqvars, nmvars, script, unreadable, extvars, g3vars, rows, folder_path, dirs, content, walkStack, collected,
                 folder_durations, sorted_folders, rollIdx, g4pc>>

\* Mutant: results are taken inside the walk loop, as soon as one is there.
Collect_during_walk ==
  /\ script = "gen4" /\ g4pc \in {"walk", "collect"}
  /\ collected < Len(futures)
  /\ futures[collected + 1].state = "done"
  /\ folder_durations' = Put(folder_durations, futures[collected + 1].root,
                             futures[collected + 1].result)
  /\ collected' = collected + 1
  /\ g4pc' = IF g4pc = "walk" THEN "walk"
             ELSE IF collected + 1 = Len(futures) THEN "sort" ELSE "collect"
  /\ UNCHANGED <<thvars, sqvars, nmvars, g3vars, script, unreadable, extvars, rows,
                 folder_path, dirs, content, walkStack, futures,
                 sorted_folders, rollIdx>>

\* "for future in futures: root, duration = future.result()": waits for the
\* next future in submission order.
Collect ==
  /\ script = "gen4" /\ g4pc = "collect"
  /\ collected < Len(futures)
  /\ futures[collected + 1].state = "done"
  /\ folder_durations' = Put(folder_durations, futures[collected + 1].root,
                             futures[collected + 1].result)
  /\ collected' = collected + 1
  /\ g4pc' = IF collected + 1 = Len(futures) THEN "sort" ELSE "collect"
  /\ UNCHANGED <<thvars, sqvars, nmvars, script, unreadable, extvars, g3vars, rows, folder_path, dirs, content, walkStack, futures,
                 sorted_folders, rollIdx>>

\* The keys of the dict, in insertion order.
Keys == [i \in 1..collected |-> futures[i].root]

Sort ==
  /\ script = "gen4" /\ g4pc = "sort"
  /\ sorted_folders' = SortByDepthDesc(Keys)
  /\ g4pc' = IF Keys = <<>> THEN "report" ELSE "rollup"
  /\ UNCHANGED <<thvars, sqvars, nmvars, script, unreadable, extvars, g3vars, rows, folder_path, dirs, content, walkStack, futures,
                 collected, folder_durations, rollIdx>>

\* The body of "for folder in sorted_folders" on the dict fd.
RollupStep(fd, folder) ==
  LET parent == Dirname(folder)
  IN IF parent \in DOMAIN fd
       THEN [fd EXCEPT ![parent] = fd[parent] + fd[folder]]
       ELSE fd

\* One turn of "for folder in sorted_folders".
Rollup ==
  /\ script = "gen4" /\ g4pc = "rollup"
  /\ rollIdx < Len(sorted_folders)
  /\ folder_durations' =
       RollupStep(folder_durations, sorted_folders[rollIdx + 1])
  /\ rollIdx' = rollIdx + 1
  /\ g4pc' = IF rollIdx + 1 = Len(sorted_folders) THEN "report" ELSE "rollup"
  /\ UNCHANGED <<thvars, sqvars, nmvars, script, unreadable, extvars, g3vars, rows, folder_path, dirs, content, walkStack, futures,
                 collected, sorted_folders>>

\* Mutant: the rows carry the full path of the folder.
ReportRows_full_path(fd, root) ==
  [i \in DOMAIN SortedPaths(DOMAIN fd) |->
     [name     |-> SortedPaths(DOMAIN fd)[i],
      duration |-> format_time_hms(10 * fd[SortedPaths(DOMAIN fd)[i]])]]

\* The rows of "for folder, duration in sorted(folder_durations.items())":
\* the folder's path without folder_path and without outer separators, and
\* the formatted duration.
ReportRows(fd, root) ==
  LET ks == SortedPaths(DOMAIN fd)
  IN [i \in DOMAIN ks |->
        [name     |-> StripSep(Replace(ks[i], root)),
         duration |-> format_time_hms(10 * fd[ks[i]])]]

\* The log and the CSV are written: the header, then one row per entry of
\* folder_durations.
WriteReport ==
  /\ script = "gen4" /\ g4pc = "report"
  /\ rows' = ReportRows(folder_durations, folder_path)
  /\ g4pc' = "done"
  /\ UNCHANGED <<thvars, sqvars, nmvars, script, unreadable, extvars, g3vars, folder_path, dirs,
                 content, walkStack, futures, collected, folder_durations,
                 sorted_folders, rollIdx>>

NextGen4 ==
  WalkSubmit \/ TaskStart \/ TaskFinish \/ Collect \/ Sort \/ Rollup
  \/ WriteReport

(***************************************************************************)
(* gen3: totalhourslocal_gen3.py                                           *)
(***************************************************************************)
\* The entries of a folder as os.listdir names them: its subfolders and its
\* files.
Entries(d) ==
  {[name |-> c[Len(c)], isdir |-> TRUE] : c \in {x \in dirs : IsParent(d, x)}}
  \cup {[name |-> content[d][i].name, isdir |-> FALSE] : i \in DOMAIN content[d]}

\* sorted(os.listdir(folder_path)): by name.
SortedEntries(E) ==
  [i \in 1..Cardinality(E) |->
     CHOOSE e \in E :
       Cardinality({x \in E : PathLess(<<x.name>>, <<e.name>>)}) = i - 1]

\* The inner loop over os.walk(course_path): the summed duration of the
\* .mp4/.mov files of the course folder c and of every folder below it.
course_seconds(c) ==
  SumSet({d \in dirs : Len(d) >= Len(c) /\ SubSeq(d, 1, Len(c)) = c},
         [d \in dirs |-> process_folder(content[d])])

InitGen3 ==
  /\ script = "gen3"
  /\ IdleExt
  /\ unreadable = {}
  /\ IdleChapt /\ IdleDeepchat /\ IdleNemulti
  /\ folder_path = <<"root">>
  /\ dirs \in Trees
  /\ \E o \in [dirs -> FileOptions] :
       content = [d \in dirs |-> FilesOf(d, o[d])]
  /\ walkStack = <<>> /\ futures = <<>> /\ collected = 0
  /\ folder_durations = EmptyMap /\ sorted_folders = <<>> /\ rollIdx = 0
  /\ rows = <<>> /\ g4pc = "idle"
  /\ listing = SortedEntries(Entries(<<>>))
  /\ listIdx = 0
  /\ course_durations = EmptyMap
  /\ g3_total_duration = 0
  /\ g3pc = "courses"

\* One turn of "for course_folder in sorted(os.listdir(folder_path))": an
\* entry that is not a directory is passed over, a directory is walked and
\* its videos are summed into course_durations and total_duration.
G3Course ==
  /\ script = "gen3" /\ g3pc = "courses"
  /\ listIdx < Len(listing)
  /\ LET e == listing[listIdx + 1]
     IN IF ~e.isdir
          THEN UNCHANGED <<course_durations, g3_total_duration>>
          ELSE /\ course_durations' =
                    Put(course_durations, e.name, course_seconds(<<e.name>>))
               /\ g3_total_duration' =
                    g3_total_duration + course_seconds(<<e.name>>)
  /\ listIdx' = listIdx + 1
  /\ UNCHANGED <<g4vars, thvars, sqvars, nmvars, script, unreadable, extvars, listing,
                 g3pc>>

\* The loop is over: the summary of the courses and the total for the root
\* folder are logged.
G3Summary ==
  /\ script = "gen3" /\ g3pc = "courses"
  /\ listIdx = Len(listing)
  /\ g3pc' = "done"
  /\ UNCHANGED <<g4vars, thvars, sqvars, nmvars, script, unreadable, extvars, listing,
                 listIdx, course_durations, g3_total_duration>>

NextGen3 == G3Course \/ G3Summary

(***************************************************************************)
(* chapt: chaptlocaldriveaidubbing_gen1.py                                 *)
(***************************************************************************)
\* Most files one run enqueues, and most worker threads it starts.
MaxFiles == 3

MaxThreads == 2

\* The 8 of min(8, os.cpu_count()).
ThreadCap == 8

Min(a, b) == IF a < b THEN a ELSE b

\* hashlib's digest, or "None" where reading the file raises.
FileKind(h, secs, good) == [hash |-> h, dur |-> secs, ok |-> good]

\* Contents a file may have: equal content has equal hash and duration.
\* A readable video, a video whose probe fails, a video whose hash fails.
Kinds ==
  { FileKind("h1", 15, TRUE), FileKind("h2", 20, FALSE),
    FileKind("None", 7, TRUE) }

\* The walk yields folder X's file, then folder Y's files.
FolderAt(i) == IF i <= 1 THEN "X" ELSE "Y"

FileLists ==
  UNION {
    {[i \in 1..n |-> [folder |-> FolderAt(i), hash |-> ks[i].hash,
                      dur |-> ks[i].dur, ok |-> ks[i].ok]] :
       ks \in [1..n -> Kinds]} : n \in 1..MaxFiles}

\* get_file_hash(file_path): None when open() or read() raises.
get_file_hash(f) == f.hash

\* get_video_duration of chapt: ffprobe's duration, 0 when it prints nothing
\* or the call raises.
probe_duration(f) == IF f.ok THEN f.dur ELSE 0

\* results[folder] of a defaultdict(float).
Get(d, k) == IF k \in DOMAIN d THEN d[k] ELSE 0

IdleGen4 ==
  /\ folder_path = <<>> /\ dirs = {} /\ content = EmptyMap
  /\ walkStack = <<>> /\ futures = <<>> /\ collected = 0
  /\ folder_durations = EmptyMap /\ sorted_folders = <<>> /\ rollIdx = 0
  /\ rows = <<>> /\ g4pc = "idle"

\* What may be unreadable below the root that holds the folders X and Y:
\* nothing, the subfolder Y, or the root itself.
UnreadableChoices == { {}, {"Y"}, {"root"} }

\* The walk loop of scan_folder: the indices of the videos it puts in the
\* queue, in walk order.  os.walk yields nothing for a directory that cannot
\* be listed.
Enqueued(fs, U) ==
  SelectSeq([i \in 1..Len(fs) |-> i],
            LAMBDA i : ~scandir_fails(U, "root") /\ ~scandir_fails(U, fs[i].folder))

\* The file with index i is one of them.
IsEnqueued(fs, U, i) ==
  ~scandir_fails(U, "root") /\ ~scandir_fails(U, fs[i].folder)

\* scan_folder up to the start of the threads: the queue holds every video
\* the walk found.
InitChapt ==
  /\ script = "chapt"
  /\ IdleExt
  /\ IdleGen3
  /\ IdleGen4 /\ IdleDeepchat /\ IdleNemulti
  /\ files \in FileLists
  /\ unreadable \in UnreadableChoices
  /\ numThreads \in 1..Min(ThreadCap, MaxThreads)
  /\ q = Enqueued(files, unreadable)
  /\ unfinished = Len(Enqueued(files, unreadable))
  /\ tpc = [w \in 1..numThreads |-> "loop"]
  /\ cur = [w \in 1..numThreads |-> 0]
  /\ file_hash = [w \in 1..numThreads |-> "None"]
  /\ duration = [w \in 1..numThreads |-> 0]
  /\ acc = [w \in 1..numThreads |-> 0]
  /\ duplicates = {}
  /\ results = EmptyMap
  /\ order = <<>>
  /\ lock = 0
  /\ added = {}
  /\ joined = 0
  /\ total_duration = 0
  /\ mainpc = "join"

Workers == 1..numThreads

\* "while not q.empty()"
LoopTest(w) ==
  /\ script = "chapt" /\ tpc[w] = "loop"
  /\ tpc' = [tpc EXCEPT ![w] = IF q = <<>> THEN "done" ELSE "get"]
  /\ UNCHANGED <<g4vars, sqvars, nmvars, script, unreadable, extvars, g3vars, files, numThreads, q, unfinished, cur,
                 file_hash, duration, acc, duplicates, results, order, lock, added,
                 joined, total_duration, mainpc>>

\* "folder, file_path = q.get()" waits while the queue is empty; the hash of
\* the file follows.
QGet(w) ==
  /\ script = "chapt" /\ tpc[w] = "get"
  /\ q # <<>>
  /\ cur' = [cur EXCEPT ![w] = Head(q)]
  /\ q' = Tail(q)
  /\ file_hash' = [file_hash EXCEPT ![w] = get_file_hash(files[Head(q)])]
  /\ tpc' = [tpc EXCEPT ![w] = "lock1"]
  /\ UNCHANGED <<g4vars, sqvars, nmvars, script, unreadable, extvars, g3vars, files, numThreads, unfinished, duration, acc,
                 duplicates, results, order, lock, added, joined, total_duration,
                 mainpc>>

\* Mutant: "with lock:" lets every thread in.
LockFree_always(w) == TRUE

\* "with lock:" is entered when the lock is free.
LockFree(w) == lock = 0

Acquire1(w) ==
  /\ script = "chapt" /\ tpc[w] = "lock1"
  /\ LockFree(w)
  /\ lock' = w
  /\ tpc' = [tpc EXCEPT ![w] = "crit1"]
  /\ UNCHANGED <<g4vars, sqvars, nmvars, script, unreadable, extvars, g3vars, files, numThreads, q, unfinished, cur,
                 file_hash, duration, acc, duplicates, results, order, added, joined,
                 total_duration, mainpc>>

\* Mutant: the membership test never finds the hash.
IsDuplicate_never(h, seen) == FALSE

\* "if file_hash in duplicates"
IsDuplicate(h, seen) == h \in seen

\* The first locked block: a file whose hash was seen is dropped, any other
\* records its hash and is probed after the lock is released.  The locals of
\* a finished turn of the loop are dead and are cleared.
CheckDuplicate(w) ==
  /\ script = "chapt" /\ tpc[w] = "crit1"
  /\ lock' = 0
  /\ IF IsDuplicate(file_hash[w], duplicates)
       THEN /\ unfinished' = unfinished - 1
            /\ tpc' = [tpc EXCEPT ![w] = "loop"]
            /\ cur' = [cur EXCEPT ![w] = 0]
            /\ file_hash' = [file_hash EXCEPT ![w] = "None"]
            /\ UNCHANGED <<duplicates, duration>>
       ELSE /\ duplicates' = duplicates \cup {file_hash[w]}
            /\ duration' = [duration EXCEPT ![w] = probe_duration(files[cur[w]])]
            /\ tpc' = [tpc EXCEPT ![w] = "lock2"]
            /\ UNCHANGED <<unfinished, cur, file_hash>>
  /\ UNCHANGED <<g4vars, sqvars, nmvars, script, unreadable, extvars, g3vars, files, numThreads, q, acc,
                 results, order, added, joined, total_duration, mainpc>>

Acquire2(w) ==
  /\ script = "chapt" /\ tpc[w] = "lock2"
  /\ LockFree(w)
  /\ lock' = w
  /\ tpc' = [tpc EXCEPT ![w] = "read"]
  /\ UNCHANGED <<g4vars, sqvars, nmvars, script, unreadable, extvars, g3vars, files, numThreads, q, unfinished, cur,
                 file_hash, duration, acc, duplicates, results, order, added, joined,
                 total_duration, mainpc>>

\* "results[folder] += duration" reads the entry: the defaultdict inserts a
\* missing key with 0.0, at the end of its key order ...
ReadResult(w) ==
  /\ script = "chapt" /\ tpc[w] = "read"
  /\ acc' = [acc EXCEPT ![w] = Get(results, files[cur[w]].folder)]
  /\ results' = Put(results, files[cur[w]].folder,
                    Get(results, files[cur[w]].folder))
  /\ order' = IF files[cur[w]].folder \in DOMAIN results
                THEN order ELSE Append(order, files[cur[w]].folder)
  /\ tpc' = [tpc EXCEPT ![w] = "write"]
  /\ UNCHANGED <<g4vars, sqvars, nmvars, script, unreadable, extvars, g3vars, files, numThreads, q, unfinished, cur,
                 file_hash, duration, duplicates, lock, added, joined,
                 total_duration, mainpc>>

\* ... and stores the sum; the lock is released and q.task_done() follows.
WriteResult(w) ==
  /\ script = "chapt" /\ tpc[w] = "write"
  /\ results' = Put(results, files[cur[w]].folder, acc[w] + duration[w])
  /\ added' = added \cup {cur[w]}
  /\ lock' = 0
  /\ unfinished' = unfinished - 1
  /\ cur' = [cur EXCEPT ![w] = 0]
  /\ file_hash' = [file_hash EXCEPT ![w] = "None"]
  /\ duration' = [duration EXCEPT ![w] = 0]
  /\ acc' = [acc EXCEPT ![w] = 0]
  /\ tpc' = [tpc EXCEPT ![w] = "loop"]
  /\ UNCHANGED <<g4vars, sqvars, nmvars, script, unreadable, extvars, g3vars, files, numThreads, q,
                 duplicates, order, joined, total_duration, mainpc>>

\* Mutant: join returns although the thread still runs.
ThreadOver_no_wait(w) == TRUE

\* "for t in threads: t.join()": the next thread has left process_videos.
ThreadOver(w) == tpc[w] = "done"

JoinThread ==
  /\ script = "chapt" /\ mainpc = "join"
  /\ joined < numThreads
  /\ ThreadOver(joined + 1)
  /\ joined' = joined + 1
  /\ mainpc' = IF joined + 1 = numThreads THEN "returned" ELSE "join"
  /\ UNCHANGED <<g4vars, sqvars, nmvars, script, unreadable, extvars, g3vars, files, numThreads, q, unfinished, tpc, cur,
                 file_hash, duration, acc, duplicates, results, order, lock, added,
                 total_duration>>

\* main: total_duration = sum(results.values()); the entries of results are
\* printed in the order of its keys, then the total.
Report ==
  /\ script = "chapt" /\ mainpc = "returned"
  /\ total_duration' = SumSet(DOMAIN results, results)
  /\ mainpc' = "reported"
  /\ UNCHANGED <<g4vars, sqvars, nmvars, script, unreadable, extvars, g3vars, files, numThreads, q, unfinished, tpc, cur,
                 file_hash, duration, acc, duplicates, results, order, lock, added,
                 joined>>

\* A step of thread w of process_videos.
Worker(w) ==
  /\ w \in Workers
  /\ \/ LoopTest(w) \/ QGet(w) \/ Acquire1(w) \/ CheckDuplicate(w)
     \/ Acquire2(w) \/ ReadResult(w) \/ WriteResult(w)

NextChapt ==
  \/ \E w \in Workers : LoopTest(w)
  \/ \E w \in Workers : QGet(w)
  \/ \E w \in Workers : Acquire1(w)
  \/ \E w \in Workers : CheckDuplicate(w)
  \/ \E w \in Workers : Acquire2(w)
  \/ \E w \in Workers : ReadResult(w)
  \/ \E w \in Workers : WriteResult(w)
  \/ JoinThread
  \/ Report

(***************************************************************************)
(* deepchat: deepchatwithashwanthaidubbing.py (deepseek_chaptaiashwant.py  *)
(* has the same walk loop)                                                 *)
(***************************************************************************)
\* What one run may meet besides plain ".mp4" names: one file whose
\* extension is written otherwise, or one file on which ffprobe never exits.
Oddities(n) ==
  {[exts |-> [i \in 1..n |-> ".mp4"], hanging |-> {}]}
  \cup {[exts |-> [i \in 1..n |-> IF i = k THEN e ELSE ".mp4"], hanging |-> {}] :
          k \in 1..n, e \in {".mov", ".MP4", ".Mov", ".txt"}}
  \cup {[exts |-> [i \in 1..n |-> ".mp4"], hanging |-> {k}] : k \in 1..n}

InitDeepchat ==
  /\ script = "deepchat"
  /\ IdleExt
  /\ IdleGen3
  /\ unreadable = {}
  /\ IdleGen4 /\ IdleNemulti
  /\ files \in FileLists
  /\ \E o \in Oddities(Len(files)) : exts = o.exts /\ hanging = o.hanging
  /\ numThreads = 0 /\ q = <<>> /\ unfinished = 0
  /\ tpc = <<>> /\ cur = <<>> /\ file_hash = <<>> /\ duration = <<>>
  /\ acc = <<>> /\ duplicates = {} /\ results = EmptyMap /\ order = <<>>
  /\ lock = 0
  /\ added = {} /\ joined = 0 /\ total_duration = 0 /\ mainpc = "idle"
  /\ scanIdx = 0
  /\ file_hashes = EmptyMap
  /\ sq_folder_durations = EmptyMap
  /\ sq_total_duration = 0
  /\ duplicate_duration = 0
  /\ dedup_total = 0
  /\ probes = [i \in DOMAIN files |-> 0]
  /\ logged = EmptyMap
  /\ sqpc = "scan"

\* filename.endswith(('.mov', '.mp4')): the name is compared as written.
endswith_mov_mp4(ext) == ext \in {".mov", ".mp4"}

\* calculate_file_hash has no try: an error of open() or read() leaves it.
calculate_file_hash_raises(f) == f.hash = "None"

\* file_hashes[file_hash].append(file_path)
AppendTo(d, k, v) == Put(d, k, IF k \in DOMAIN d THEN Append(d[k], v) ELSE <<v>>)

\* The pc after file i of the walk loop.
AfterFile(i) == IF i = Len(files) THEN "dups" ELSE "scan"

\* One file of the walk loop up to the call of get_video_duration: a name that
\* does not end in .mov or .mp4 is passed over, any other file is hashed and
\* subprocess.run starts ffprobe on it.  An exception of calculate_file_hash
\* is caught nowhere and ends the run.
ScanFile ==
  /\ script = "deepchat" /\ sqpc = "scan"
  /\ scanIdx < Len(files)
  /\ LET i == scanIdx + 1
         f == files[i]
     IN IF ~endswith_mov_mp4(exts[i])
          THEN /\ scanIdx' = i
               /\ sqpc' = AfterFile(i)
               /\ UNCHANGED <<file_hashes, probes>>
          ELSE IF calculate_file_hash_raises(f)
            THEN /\ sqpc' = "aborted"
                 /\ UNCHANGED <<scanIdx, file_hashes, probes>>
            ELSE /\ file_hashes' = AppendTo(file_hashes, f.hash, i)
                 /\ probes' = [probes EXCEPT ![i] = @ + 1]
                 /\ sqpc' = "probing"
                 /\ UNCHANGED scanIdx
  /\ UNCHANGED <<g4vars, thvars, nmvars, script, unreadable, extvars, g3vars, exts, hanging,
                 sq_folder_durations, sq_total_duration, duplicate_duration,
                 dedup_total, logged>>

\* subprocess.run(...) has no timeout: it returns when ffprobe exits, and the
\* duration is added to the folder and to the total.
ProbeReturn ==
  /\ script = "deepchat" /\ sqpc = "probing"
  /\ (scanIdx + 1) \notin hanging
  /\ LET i == scanIdx + 1
         f == files[i]
     IN /\ sq_folder_durations' =
             Put(sq_folder_durations, f.folder,
                 Get(sq_folder_durations, f.folder) + probe_duration(f))
        /\ sq_total_duration' = sq_total_duration + probe_duration(f)
        /\ scanIdx' = i
        /\ sqpc' = AfterFile(i)
  /\ UNCHANGED <<g4vars, thvars, nmvars, script, unreadable, extvars, g3vars, exts, hanging,
                 file_hashes, duplicate_duration, dedup_total, probes, logged>>

\* The files the duplicates loop probes again: those of a list of two or more.
Reprobed ==
  {i \in DOMAIN files :
     \E h \in DOMAIN file_hashes :
       Len(file_hashes[h]) > 1 /\ \E j \in DOMAIN file_hashes[h] : file_hashes[h][j] = i}

\* What a later get_video_duration call on a file may return: what the first
\* call returned, or 0 when ffprobe prints nothing this time.
ProbeOutcomes(f) == {probe_duration(f), 0}

\* "for file_hash, files in file_hashes.items()": every file of a list of two
\* or more is probed again; that result is written to the duplicates log and
\* added to duplicate_duration.
LogDuplicates ==
  /\ script = "deepchat" /\ sqpc = "dups"
  /\ \E again \in [Reprobed -> {0} \cup {probe_duration(files[i]) : i \in Reprobed}] :
       /\ \A i \in Reprobed : again[i] \in ProbeOutcomes(files[i])
       /\ logged' = again
       /\ duplicate_duration' = SumSet(Reprobed, again)
  /\ probes' = [i \in DOMAIN files |-> IF i \in Reprobed THEN probes[i] + 1 ELSE probes[i]]
  /\ sqpc' = "summary"
  /\ UNCHANGED <<g4vars, thvars, nmvars, script, unreadable, extvars, g3vars, exts, hanging, scanIdx,
                 file_hashes, sq_folder_durations, sq_total_duration, dedup_total>>

\* The folder durations, the total and the duplicate summary are written.
Summary ==
  /\ script = "deepchat" /\ sqpc = "summary"
  /\ dedup_total' = sq_total_duration - duplicate_duration
  /\ sqpc' = "done"
  /\ UNCHANGED <<g4vars, thvars, nmvars, script, unreadable, extvars, g3vars, exts, hanging, scanIdx,
                 file_hashes, sq_folder_durations, sq_total_duration,
                 duplicate_duration, probes, logged>>

NextDeepchat == ScanFile \/ ProbeReturn \/ LogDuplicates \/ Summary

(***************************************************************************)
(* nemulti: nemultilocalduration_gen1.py.  Each video lasts one second.    *)
(***************************************************************************)
\* max_workers of the pool of traverse_folder and of the pool that each
\* process_videos_in_folder call makes.
outer_max_workers == 11

inner_max_workers == 11

VideoCounts == {0, 6}

FolderShapes == [videos : VideoCounts, others : {0, 1}]

InitNemulti ==
  /\ script = "nemulti"
  /\ IdleExt
  /\ IdleGen3
  /\ unreadable = {}
  /\ IdleGen4 /\ IdleChapt /\ IdleDeepchat
  /\ nmFolders \in [1..1 -> FolderShapes] \cup [1..2 -> FolderShapes]
  /\ nmNext = 1
  /\ nmFutures = <<>>
  /\ nmCollected = 0
  /\ nm_folder_durations = EmptyMap
  /\ nm_total_duration = 0
  /\ nmpc = "walk"

\* One turn of the os.walk loop: "if files:" submits the folder's task.
NmWalk ==
  /\ script = "nemulti" /\ nmpc = "walk"
  /\ nmNext <= Len(nmFolders)
  /\ nmFutures' =
       IF nmFolders[nmNext].videos + nmFolders[nmNext].others > 0
         THEN Append(nmFutures,
                [folder |-> nmNext, state |-> "pending", waiting |-> 0,
                 running |-> 0, finished |-> 0, result |-> 0])
         ELSE nmFutures
  /\ nmNext' = nmNext + 1
  /\ nmpc' = IF nmNext = Len(nmFolders) THEN "collect" ELSE "walk"
  /\ UNCHANGED <<g4vars, thvars, sqvars, script, unreadable, extvars, g3vars, nmFolders, nmCollected,
                 nm_folder_durations, nm_total_duration>>

\* A process of the outer pool starts process_videos_in_folder: it makes its
\* own pool and executor.map submits every video of the folder to it.
NmTaskStart ==
  /\ script = "nemulti"
  /\ \E i \in DOMAIN nmFutures :
       /\ nmFutures[i].state = "pending"
       /\ \A j \in 1..(i - 1) : nmFutures[j].state # "pending"
       /\ Cardinality({j \in DOMAIN nmFutures : nmFutures[j].state = "running"})
            < outer_max_workers
       /\ nmFutures' = [nmFutures EXCEPT
            ![i].state = "running",
            ![i].waiting = nmFolders[nmFutures[i].folder].videos]
  /\ UNCHANGED <<g4vars, thvars, sqvars, script, unreadable, extvars, g3vars, nmFolders, nmNext, nmCollected,
                 nm_folder_durations, nm_total_duration, nmpc>>

\* A process of a folder's inner pool starts get_video_duration.
NmProbeStart ==
  /\ script = "nemulti"
  /\ \E i \in DOMAIN nmFutures :
       /\ nmFutures[i].state = "running"
       /\ nmFutures[i].waiting > 0
       /\ nmFutures[i].running < inner_max_workers
       /\ nmFutures' = [nmFutures EXCEPT
            ![i].waiting = @ - 1, ![i].running = @ + 1]
  /\ UNCHANGED <<g4vars, thvars, sqvars, script, unreadable, extvars, g3vars, nmFolders, nmNext, nmCollected,
                 nm_folder_durations, nm_total_duration, nmpc>>

\* get_video_duration returns.
NmProbeFinish ==
  /\ script = "nemulti"
  /\ \E i \in DOMAIN nmFutures :
       /\ nmFutures[i].running > 0
       /\ nmFutures' = [nmFutures EXCEPT
            ![i].running = @ - 1, ![i].finished = @ + 1]
  /\ UNCHANGED <<g4vars, thvars, sqvars, script, unreadable, extvars, g3vars, nmFolders, nmNext, nmCollected,
                 nm_folder_durations, nm_total_duration, nmpc>>

\* The inner pool is shut down when all its probes are over, the durations
\* are summed and process_videos_in_folder returns.
NmTaskFinish ==
  /\ script = "nemulti"
  /\ \E i \in DOMAIN nmFutures :
       /\ nmFutures[i].state = "running"
       /\ nmFutures[i].waiting = 0 /\ nmFutures[i].running = 0
       /\ nmFutures' = [nmFutures EXCEPT
            ![i].state = "done", ![i].result = nmFutures[i].finished]
  /\ UNCHANGED <<g4vars, thvars, sqvars, script, unreadable, extvars, g3vars, nmFolders, nmNext, nmCollected,
                 nm_folder_durations, nm_total_duration, nmpc>>

\* "for future in future_results: folder, duration = future.result()"
NmCollect ==
  /\ script = "nemulti" /\ nmpc = "collect"
  /\ IF nmCollected < Len(nmFutures)
       THEN /\ nmFutures[nmCollected + 1].state = "done"
            /\ nm_folder_durations' =
                 Put(nm_folder_durations, nmFutures[nmCollected + 1].folder,
                     nmFutures[nmCollected + 1].result)
            /\ nm_total_duration' =
                 nm_total_duration + nmFutures[nmCollected + 1].result
            /\ nmCollected' = nmCollected + 1
            /\ UNCHANGED nmpc
       ELSE /\ nmpc' = "done"
            /\ UNCHANGED <<nm_folder_durations, nm_total_duration, nmCollected>>
  /\ UNCHANGED <<g4vars, thvars, sqvars, script, unreadable, extvars, g3vars, nmFolders, nmNext, nmFutures>>

NextNemulti ==
  \/ NmWalk \/ NmTaskStart \/ NmProbeStart \/ NmProbeFinish \/ NmTaskFinish
  \/ NmCollect

\* get_video_duration calls in flight, over all folders.
InFlight == SumSeq([i \in DOMAIN nmFutures |-> nmFutures[i].running])

\* Every folder scanner is at rest.
IdleScanners ==
  /\ unreadable = {}
  /\ IdleGen4 /\ IdleGen3 /\ IdleChapt /\ IdleDeepchat /\ IdleNemulti

(***************************************************************************)
(* format: format_time_hms of gen4 and format_duration of the dedup        *)
(* scanner, each called once on one duration                               *)
(***************************************************************************)
\* The durations tried, in tenths of a second: whole and fractional values
\* around the minute and the hour.
Durations ==
  {h * 36000 + m * 600 + sec * 10 + f :
     h \in 0..2, m \in {0, 1, 59}, sec \in {0, 1, 59}, f \in {0, 5, 9}}

InitFormat ==
  /\ script = "format"
  /\ IdleScanners /\ IdleGdrive /\ IdleYoutube /\ IdleConvert
  /\ fmt_seconds \in Durations
  /\ fmt_hms = ZeroTime
  /\ fmt_duration = ZeroTime
  /\ fmt_called = {}

FormatTimeHms ==
  /\ script = "format" /\ "format_time_hms" \notin fmt_called
  /\ fmt_hms' = format_time_hms(fmt_seconds)
  /\ fmt_called' = fmt_called \cup {"format_time_hms"}
  /\ UNCHANGED <<script, scanvars, gdvars, ytvars, cvvars, fmt_seconds, fmt_duration>>

FormatDuration ==
  /\ script = "format" /\ "format_duration" \notin fmt_called
  /\ fmt_duration' = format_duration(fmt_seconds)
  /\ fmt_called' = fmt_called \cup {"format_duration"}
  /\ UNCHANGED <<script, scanvars, gdvars, ytvars, cvvars, fmt_seconds, fmt_hms>>

NextFormat == FormatTimeHms \/ FormatDuration

(***************************************************************************)
(* gdrive: ashwanthdubbinghourscalc_gen1.py                                *)
(***************************************************************************)
\* Most entries of one Drive folder, and the largest page size.
MaxEntries == 2

\* An entry of a Drive folder: a file with its mimeType and the duration of
\* its content, or a folder with its own entries.
DriveFile(mime, secs) == [mimeType |-> mime, duration |-> secs, children |-> <<>>]

DriveFolder(entries) ==
  [mimeType |-> "application/vnd.google-apps.folder", duration |-> 0,
   children |-> entries]

DriveFiles ==
  { DriveFile("video/mp4", 3), DriveFile("video/quicktime", 5),
    DriveFile("text/plain", 0) }

\* The folders tried: files, and subfolders that hold one or two videos.
DriveListings ==
  LET mp4 == DriveFile("video/mp4", 3)
      mov == DriveFile("video/quicktime", 5)
      entries == DriveFiles \cup {DriveFolder(<<mp4>>), DriveFolder(<<mp4, mov>>)}
  IN UNION {[1..n -> entries] : n \in 1..MaxEntries}

\* service.files().list(q="'<id>' in parents", ...).execute(): the API
\* answers with one page, the first pageSize entries of the folder, and a
\* nextPageToken when more remain.
files_list_execute(entries, pageSize) ==
  [files |-> SubSeq(entries, 1, Min(pageSize, Len(entries))),
   nextPageToken |-> Len(entries) > pageSize]

\* list_files_in_folder: results.get('files', []) of that one request.
list_files_in_folder(entries, pageSize) ==
  files_list_execute(entries, pageSize).files

RECURSIVE traverse_folder(_, _)
\* traverse_folder: the durations of the videos among the listed entries,
\* those of listed subfolders included.
traverse_folder(entries, pageSize) ==
  LET listed == list_files_in_folder(entries, pageSize)
  IN SumSeq([i \in DOMAIN listed |->
       IF listed[i].mimeType = "application/vnd.google-apps.folder"
         THEN traverse_folder(listed[i].children, pageSize)
       ELSE IF listed[i].mimeType \in {"video/mp4", "video/quicktime"}
         THEN listed[i].duration
       ELSE 0])

InitGdrive ==
  /\ script = "gdrive"
  /\ IdleScanners /\ IdleFormat /\ IdleYoutube /\ IdleConvert
  /\ gdListing \in DriveListings
  /\ gdPageSize \in 1..MaxEntries
  /\ gd_total_duration = 0
  /\ gdpc = "traverse"

\* main: total_duration = traverse_folder(service, root_folder_id, ...)
GdTraverse ==
  /\ script = "gdrive" /\ gdpc = "traverse"
  /\ gd_total_duration' = traverse_folder(gdListing, gdPageSize)
  /\ gdpc' = "report"
  /\ UNCHANGED <<script, scanvars, fmvars, ytvars, cvvars, gdListing, gdPageSize>>

\* main: the total is logged.
GdReport ==
  /\ script = "gdrive" /\ gdpc = "report"
  /\ gdpc' = "done"
  /\ UNCHANGED <<script, scanvars, fmvars, ytvars, cvvars, gdListing, gdPageSize,
                 gd_total_duration>>

NextGdrive == GdTraverse \/ GdReport

(***************************************************************************)
(* youtube: youtube_gen5.py, the upload window and its worker thread       *)
(***************************************************************************)
\* Most videos of the course folder, and most uploads started in a session.
MaxVideos == 2

MaxRuns == 2

MAX_DAILY_QUOTA == 500000000

COST_PER_VIDEO == 1650

\* run: request_count, which grows with uploaded_count.
request_count == COST_PER_VIDEO * uploaded_count

\* The window is open, nothing was uploaded and there is no state file.
InitYoutube ==
  /\ script = "youtube"
  /\ IdleScanners /\ IdleFormat /\ IdleGdrive /\ IdleConvert
  /\ total_videos \in 1..MaxVideos
  /\ resume_file = -1
  /\ resume_state_input = -1
  /\ running = FALSE /\ paused = FALSE
  /\ start_index = 0 /\ yt_i = 0
  /\ uploaded_count = 0
  /\ upload_raised = FALSE
  /\ finished_signal = "none"
  /\ on_youtube = [v \in 0..(total_videos - 1) |-> 0]
  /\ runs = 0
  /\ ytpc = "ready"

\* load_resume_state: the number in the file, 0 without a file.
load_resume_state(file) == IF file = -1 THEN 0 ELSE file

\* start_upload fills a blank resume field from resume_state.txt and starts
\* a worker with the field's text as config["resume_state"]; run takes its
\* start index from the file and then, when that text is a number, from the
\* text.
StartUpload ==
  /\ script = "youtube" /\ ytpc = "ready"
  /\ runs < MaxRuns
  /\ LET field == IF resume_state_input = -1 THEN resume_file
                  ELSE resume_state_input
         start == IF field # -1 THEN field ELSE load_resume_state(resume_file)
     IN /\ resume_state_input' = field
        /\ start_index' = start
        /\ yt_i' = start
  /\ running' = TRUE /\ paused' = FALSE
  /\ uploaded_count' = 0
  /\ upload_raised' = FALSE
  /\ finished_signal' = "none"
  /\ runs' = runs + 1
  /\ ytpc' = "check"
  /\ UNCHANGED <<script, scanvars, fmvars, gdvars, cvvars, total_videos, resume_file,
                 on_youtube>>

\* The worker thread runs and the window's buttons are live.
WorkerActive ==
  script = "youtube"
  /\ ytpc \in {"check", "pause", "quota", "insert", "playlist", "end"}

\* pause_resume_upload: the button is enabled until cancel is pressed.
PauseResumeUpload ==
  /\ WorkerActive /\ running
  /\ paused' = ~paused
  /\ UNCHANGED <<script, scanvars, fmvars, gdvars, cvvars, total_videos, resume_file,
                 resume_state_input, running, start_index, yt_i,
                 uploaded_count, upload_raised, finished_signal, on_youtube,
                 runs, ytpc>>

\* cancel_upload: running becomes False and both buttons are disabled.
CancelUpload ==
  /\ WorkerActive /\ running
  /\ running' = FALSE
  /\ UNCHANGED <<script, scanvars, fmvars, gdvars, cvvars, total_videos, resume_file,
                 resume_state_input, paused, start_index, yt_i,
                 uploaded_count, upload_raised, finished_signal, on_youtube,
                 runs, ytpc>>

\* "for i in range(start_index, total_videos): if not self.running: break"
LoopCheck ==
  /\ script = "youtube" /\ ytpc = "check"
  /\ ytpc' = IF yt_i >= total_videos \/ ~running THEN "end" ELSE "pause"
  /\ UNCHANGED <<script, scanvars, fmvars, gdvars, cvvars, total_videos, resume_file,
                 resume_state_input, running, paused, start_index, yt_i,
                 uploaded_count, upload_raised, finished_signal, on_youtube,
                 runs>>

\* "while self.paused and self.running: time.sleep(1)" is left.
PauseWait ==
  /\ script = "youtube" /\ ytpc = "pause"
  /\ ~(paused /\ running)
  /\ ytpc' = "quota"
  /\ UNCHANGED <<script, scanvars, fmvars, gdvars, cvvars, total_videos, resume_file,
                 resume_state_input, running, paused, start_index, yt_i,
                 uploaded_count, upload_raised, finished_signal, on_youtube,
                 runs>>

\* The quota test, and after it the call of upload_video for videos[i].
QuotaCheck ==
  /\ script = "youtube" /\ ytpc = "quota"
  /\ ytpc' = IF request_count + COST_PER_VIDEO > MAX_DAILY_QUOTA
               THEN "end" ELSE "insert"
  /\ UNCHANGED <<script, scanvars, fmvars, gdvars, cvvars, total_videos, resume_file,
                 resume_state_input, running, paused, start_index, yt_i,
                 uploaded_count, upload_raised, finished_signal, on_youtube,
                 runs>>

\* upload_video: videos().insert and its next_chunk loop.  Either the video
\* is on YouTube and has its id, or the request raises; run catches that,
\* logs it and leaves the loop.
InsertVideo ==
  /\ script = "youtube" /\ ytpc = "insert"
  /\ \/ /\ on_youtube' = [on_youtube EXCEPT ![yt_i] = @ + 1]
        /\ ytpc' = "playlist"
        /\ UNCHANGED upload_raised
     \/ /\ upload_raised' = TRUE
        /\ ytpc' = "end"
        /\ UNCHANGED on_youtube
  /\ UNCHANGED <<script, scanvars, fmvars, gdvars, cvvars, total_videos, resume_file,
                 resume_state_input, running, paused, start_index, yt_i,
                 uploaded_count, finished_signal, runs>>

\* upload_video: add_video_to_playlist.  When it returns, run counts the
\* video and save_resume_state writes i + 1; when it raises, run leaves the
\* loop as above.
AddVideoToPlaylist ==
  /\ script = "youtube" /\ ytpc = "playlist"
  /\ \/ /\ uploaded_count' = uploaded_count + 1
        /\ resume_file' = yt_i + 1
        /\ yt_i' = yt_i + 1
        /\ ytpc' = "check"
        /\ UNCHANGED upload_raised
     \/ /\ upload_raised' = TRUE
        /\ ytpc' = "end"
        /\ UNCHANGED <<uploaded_count, resume_file, yt_i>>
  /\ UNCHANGED <<script, scanvars, fmvars, gdvars, cvvars, total_videos,
                 resume_state_input, running, paused, start_index,
                 finished_signal, on_youtube, runs>>

\* After the loop: self.finished_signal.emit(True).
EmitFinished ==
  /\ script = "youtube" /\ ytpc = "end"
  /\ finished_signal' = "True"
  /\ ytpc' = "finished"
  /\ UNCHANGED <<script, scanvars, fmvars, gdvars, cvvars, total_videos, resume_file,
                 resume_state_input, running, paused, start_index, yt_i,
                 uploaded_count, upload_raised, on_youtube, runs>>

\* upload_finished: the message box is shown and Start is enabled again.
UploadFinished ==
  /\ script = "youtube" /\ ytpc = "finished"
  /\ ytpc' = "ready"
  /\ UNCHANGED <<script, scanvars, fmvars, gdvars, cvvars, total_videos, resume_file,
                 resume_state_input, running, paused, start_index, yt_i,
                 uploaded_count, upload_raised, finished_signal, on_youtube,
                 runs>>

NextYoutube ==
  \/ StartUpload \/ PauseResumeUpload \/ CancelUpload \/ LoopCheck
  \/ PauseWait \/ QuotaCheck \/ InsertVideo \/ AddVideoToPlaylist
  \/ EmitFinished \/ UploadFinished

(***************************************************************************)
(* convert: gemini_converter_v1.py, ConversionWorker in folder mode and    *)
(* the window's handlers.  Every video has a readable, positive duration.  *)
(***************************************************************************)
\* process_folder has scanned the folder and enters its loop.
InitConvert ==
  /\ script = "convert"
  /\ IdleScanners /\ IdleFormat /\ IdleGdrive /\ IdleYoutube
  /\ video_files \in 1..MaxVideos
  /\ cvIdx = 0
  /\ converted_files = <<>>
  /\ output = [v \in 1..video_files |-> "none"]
  /\ is_aborted = FALSE
  /\ completed = {}
  /\ cvpc = "loop"

\* list.remove(x): the first occurrence is taken out.
ListRemove(l, x) ==
  LET first == CHOOSE i \in DOMAIN l : l[i] = x /\ \A j \in 1..(i - 1) : l[j] # x
  IN IF \E i \in DOMAIN l : l[i] = x
       THEN SubSeq(l, 1, first - 1) \o SubSeq(l, first + 1, Len(l))
       ELSE l

\* abort_conversion: the worker runs, stop() sets _is_aborted.
AbortConversion ==
  /\ script = "convert" /\ cvpc \in {"loop", "ffmpeg"}
  /\ ~is_aborted
  /\ is_aborted' = TRUE
  /\ UNCHANGED <<script, scanvars, fmvars, gdvars, ytvars, video_files, cvIdx,
                 converted_files, output, completed, cvpc>>

\* One turn of the loop of process_folder up to the start of ffmpeg in
\* convert_video_file: the loop ends after the last video or when
\* is_aborted() holds and run emits finished_signal; otherwise Popen starts
\* ffmpeg, which writes the output file, and the file is appended to
\* converted_files.
StartFfmpeg ==
  /\ script = "convert" /\ cvpc = "loop"
  /\ IF cvIdx = video_files \/ is_aborted
       THEN /\ cvpc' = "finished"
            /\ UNCHANGED <<converted_files, output>>
       ELSE /\ converted_files' = Append(converted_files, cvIdx + 1)
            /\ output' = [output EXCEPT ![cvIdx + 1] = "partial"]
            /\ cvpc' = "ffmpeg"
  /\ UNCHANGED <<script, scanvars, fmvars, gdvars, ytvars, video_files, cvIdx,
                 is_aborted, completed>>

\* The read loop sees is_aborted(): ffmpeg is terminated and
\* convert_video_file returns False; what ffmpeg wrote stays on disk.
TerminateFfmpeg ==
  /\ script = "convert" /\ cvpc = "ffmpeg"
  /\ is_aborted
  /\ cvIdx' = cvIdx + 1
  /\ cvpc' = "loop"
  /\ UNCHANGED <<script, scanvars, fmvars, gdvars, ytvars, video_files,
                 converted_files, output, is_aborted, completed>>

\* ffmpeg ends by itself.  With return code 0 the output is whole and
\* convert_video_file returns True; with another code the file is taken out
\* of converted_files and deleted.
FfmpegExits ==
  /\ script = "convert" /\ cvpc = "ffmpeg"
  /\ \/ /\ output' = [output EXCEPT ![cvIdx + 1] = "complete"]
        /\ completed' = completed \cup {cvIdx + 1}
        /\ UNCHANGED converted_files
     \/ /\ converted_files' = ListRemove(converted_files, cvIdx + 1)
        /\ output' = [output EXCEPT ![cvIdx + 1] = "none"]
        /\ UNCHANGED completed
  /\ cvIdx' = cvIdx + 1
  /\ cvpc' = "loop"
  /\ UNCHANGED <<script, scanvars, fmvars, gdvars, ytvars, video_files,
                 is_aborted>>

\* cleanup_partial_files: every file of converted_files that exists is
\* deleted, then the list is cleared.
cleanup_partial_files(out, list) ==
  [v \in DOMAIN out |->
     IF \E i \in DOMAIN list : list[i] = v THEN "none" ELSE out[v]]

\* conversion_finished(success, aborted): an aborted run is cleaned up.
ConversionFinished ==
  /\ script = "convert" /\ cvpc = "finished"
  /\ IF is_aborted
       THEN /\ output' = cleanup_partial_files(output, converted_files)
            /\ converted_files' = <<>>
       ELSE UNCHANGED <<output, converted_files>>
  /\ cvpc' = "done"
  /\ UNCHANGED <<script, scanvars, fmvars, gdvars, ytvars, video_files, cvIdx,
                 is_aborted, completed>>

NextConvert ==
  \/ AbortConversion \/ StartFfmpeg \/ TerminateFfmpeg \/ FfmpegExits
  \/ ConversionFinished

(***************************************************************************)
(* Specification                                                           *)
(***************************************************************************)
Init ==
  \/ InitGen4 \/ InitGen3 \/ InitChapt \/ InitDeepchat \/ InitNemulti
  \/ InitFormat \/ InitGdrive \/ InitYoutube \/ InitConvert

Next ==
  \/ NextGen4 \/ NextGen3 \/ NextChapt \/ NextDeepchat \/ NextNemulti
  \/ NextFormat \/ NextGdrive \/ NextYoutube \/ NextConvert

Spec == Init /\ [][Next]_vars

\* Every thread that can take a step eventually takes one.
FairSpec ==
  /\ Spec
  /\ \A w \in 1..MaxThreads : WF_vars(Worker(w))
  /\ WF_vars(JoinThread)
  /\ WF_vars(Report)

(***************************************************************************)
(* Claims                                                                  *)
(***************************************************************************)
\* The key under which the walk records folder d.
RECURSIVE PathOf(_)
PathOf(d) ==
  IF d = <<>> THEN folder_path
  ELSE PathJoin(PathOf(SubSeq(d, 1, Len(d) - 1)), d[Len(d)])

\* Seconds of the .mp4/.mov files directly in folder d, a failed probe
\* counting 0.
SecondsOf(fs) ==
  SumSet(DOMAIN fs,
         [i \in DOMAIN fs |->
            IF fs[i].ext \in {".mp4", ".mov", ".MP4", ".MOV", ".Mov"} /\ fs[i].ok
              THEN fs[i].dur ELSE 0])

DirectSeconds(d) == SecondsOf(content[d])

Gen4Done == script = "gen4" /\ g4pc = "done"

\* Every directory of the tree can be listed.
AllReadable == unreadable = {}

\* C1: after the parent-aggregation loop, every folder's value is the sum of
\* its own videos and of the final values of its immediate child folders.
C1_RollUpInvariant ==
  (Gen4Done /\ AllReadable) =>
    \A d \in dirs :
      /\ PathOf(d) \in DOMAIN folder_durations
      /\ folder_durations[PathOf(d)] =
           DirectSeconds(d)
           + SumSet({c \in dirs : IsParent(d, c)},
                    [c \in dirs |-> folder_durations[PathOf(c)]])

\* C2: the final value of the root folder is the sum of the probed durations
\* of every video anywhere under the root, whatever the form of folder_path.
C2_GrandTotal ==
  (Gen4Done /\ AllReadable) =>
    /\ folder_path \in DOMAIN folder_durations
    /\ folder_durations[folder_path] =
         SumSet(dirs, [d \in dirs |-> DirectSeconds(d)])

(* ---- the threaded scanner ---- *)
\* Every enqueued file was taken from the queue and marked task_done.
AllHandled == script = "chapt" /\ unfinished = 0

\* The files the walk has put in the queue.
EnqueuedFiles == {i \in DOMAIN files : IsEnqueued(files, unreadable, i)}

\* The hashes that were computed for at least one enqueued file.
ComputedHashes == {files[i].hash : i \in EnqueuedFiles} \ {"None"}

AddedWithHash(h) == {i \in added : files[i].hash = h}

\* C3: for every hash that was computed, at most one file with that hash is
\* ever added to results, and once every file was handled exactly one is.
C3_OneFilePerHash ==
  script = "chapt" =>
    \A h \in ComputedHashes :
      /\ Cardinality(AddedWithHash(h)) <= 1
      /\ AllHandled => Cardinality(AddedWithHash(h)) = 1

\* Two workers have handled three files, two of them of equal hash.
C3_Witness ==
  /\ AllHandled /\ numThreads = 2 /\ Len(files) = 3
  /\ \E i, j \in DOMAIN files : i # j /\ files[i].hash = "h1" /\ files[j].hash = "h1"
  /\ Cardinality(AddedWithHash("h1")) = 1

(* ---- the sequential scanner ---- *)
\* The first file the scan found with hash h.
FirstWithHash(h) == file_hashes[h][1]

\* C4: the deduplicated total of deepchat counts each distinct content once:
\* of k files of equal hash and duration d it holds d once.
C4_DedupCountsContentOnce ==
  (script = "deepchat" /\ sqpc = "done") =>
    dedup_total =
      SumSet(DOMAIN file_hashes,
             [h \in DOMAIN file_hashes |->
                IF files[FirstWithHash(h)].ok THEN files[FirstWithHash(h)].dur ELSE 0])

(* ---- failed probes ---- *)
\* The tree of the scenario: A/vid1.mp4 10 s, A/B/vid2.mp4 20 s, C/vid3.mov
\* whose probe fails, walked from the root path "root".
ProbeScenario ==
  /\ script = "gen4"
  /\ folder_path = <<"root">>
  /\ AllReadable
  /\ dirs = {<<>>, <<"A">>, <<"A", "B">>, <<"C">>}
  /\ content[<<>>] = <<>>
  /\ content[<<"A">>] = <<Video("vid", ".mp4", 10, TRUE)>>
  /\ content[<<"A", "B">>] = <<Video("vid", ".mp4", 20, TRUE)>>
  /\ content[<<"C">>] = <<Video("vid", ".mov", 5, FALSE)>>

\* Seconds of the files of folder F that were added, a failed probe counting 0.
AddedSeconds(F) ==
  SumSet({i \in added : files[i].folder = F},
         [i \in DOMAIN files |-> IF files[i].ok THEN files[i].dur ELSE 0])

\* C5: a file whose probe fails counts 0 and the other files still count:
\* every folder task of gen4 returns the sum of the videos whose probe
\* succeeded, the run is never stuck before its end, the scenario yields
\* total(A/B) = 20, total(A) = 30, total(C) = 0 and grand total 30, and in the
\* threaded scanner results[folder] is the sum over the added files with 0
\* for each failed probe.
C5_FailedProbeCountsZero ==
  /\ script = "gen4" =>
       /\ \A i \in DOMAIN futures :
            futures[i].state = "done" => futures[i].result = SecondsOf(futures[i].files)
       /\ g4pc \in {"report", "done"}
          \/ ENABLED (WalkSubmit \/ TaskStart \/ TaskFinish \/ Collect \/ Sort
                      \/ Rollup)
  /\ (ProbeScenario /\ g4pc = "done") =>
       /\ folder_durations[<<"root", SEP, "A", SEP, "B">>] = 20
       /\ folder_durations[<<"root", SEP, "A">>] = 30
       /\ folder_durations[<<"root", SEP, "C">>] = 0
       /\ folder_durations[<<"root">>] = 30
  /\ script = "chapt" =>
       \A F \in {"X", "Y"} : Get(results, F) = AddedSeconds(F)

\* The scenario has run to its end.
C5_Witness == ProbeScenario /\ g4pc = "done" /\ folder_durations[<<"root">>] = 30

\* C6: every file whose hash could not be computed still has its duration
\* added, once every file was handled.
C6_UnhashedStillCounted ==
  AllHandled => \A i \in EnqueuedFiles : files[i].hash = "None" => i \in added

\* C7: a failure while hashing a file does not abort the sequential scan.
C7_HashFailureDoesNotAbort == script = "deepchat" => sqpc # "aborted"

\* C8: the roll-up of gen4 starts only when the walk is over and every
\* submitted task's result was collected; scan_folder of the threaded scanner
\* has returned, and main sums, only when every worker thread is over.
C8_Barrier ==
  /\ (script = "gen4" /\ g4pc \in {"sort", "rollup", "report", "done"}) =>
       /\ walkStack = <<>>
       /\ collected = Len(futures)
       /\ \A i \in DOMAIN futures : futures[i].state = "done"
       /\ DOMAIN folder_durations = {futures[i].root : i \in DOMAIN futures}
  /\ (script = "gen4" /\ g4pc \in {"walk", "collect"}) => rollIdx = 0
  /\ (script = "chapt" /\ mainpc \in {"returned", "reported"}) =>
       \A w \in Workers : tpc[w] = "done"
  /\ (script = "chapt" /\ mainpc = "join") => total_duration = 0

\* main has summed the results of two workers that added two files.
C8_Witness ==
  /\ script = "chapt" /\ mainpc = "reported" /\ numThreads = 2
  /\ Cardinality(added) >= 2

\* C9: at most max_workers = 11 probes are in flight at any moment.
C9_AtMostWInFlight == script = "nemulti" => InFlight <= inner_max_workers

\* C10: scan_folder terminates: until main has its results, some thread can
\* always take a step, so no worker waits for ever and the joins return.
C10_Terminates ==
  script = "chapt" => (mainpc \in {"returned", "reported"} \/ ENABLED NextChapt)

(* ---- the report of the threaded scanner ---- *)
RECURSIVE OneThreadRun(_, _, _, _)
\* What results and its key order are when one thread handles the queued
\* files idxs one after the other, as a run does in which the other threads
\* find the queue empty: seen, res and ord are duplicates, results and the
\* key order so far.
OneThreadRun(idxs, seen, res, ord) ==
  IF idxs = <<>> THEN [results |-> res, order |-> ord]
  ELSE LET f == files[Head(idxs)]
       IN IF IsDuplicate(get_file_hash(f), seen)
            THEN OneThreadRun(Tail(idxs), seen, res, ord)
            ELSE OneThreadRun(
                   Tail(idxs), seen \cup {get_file_hash(f)},
                   Put(res, f.folder, Get(res, f.folder) + probe_duration(f)),
                   IF f.folder \in DOMAIN res THEN ord ELSE Append(ord, f.folder))

OneThreadReport ==
  OneThreadRun(Enqueued(files, unreadable), {}, EmptyMap, <<>>)

ChaptReported == script = "chapt" /\ mainpc = "reported"

\* C11: on an unchanged tree the threaded scanner's report is the same on
\* every run: the folders, each folder's duration, the order of the entries
\* and the total are those of the run in which a single thread handles every
\* file, whatever the interleaving of the workers.
C11_SameReportEveryRun ==
  ChaptReported =>
    /\ DOMAIN results = DOMAIN OneThreadReport.results
    /\ results = OneThreadReport.results
    /\ order = OneThreadReport.order
    /\ total_duration =
         SumSet(DOMAIN OneThreadReport.results, OneThreadReport.results)

\* The first of the queued files that has hash h.
FirstEnqueuedWithHash(h) ==
  CHOOSE i \in EnqueuedFiles :
    /\ files[i].hash = h
    /\ \A j \in EnqueuedFiles : files[j].hash = h => i <= j

\* C18: among the files that share a content hash, the one whose duration is
\* counted is the first of them in traversal order, for every interleaving.
C18_CanonicalIsFirst ==
  script = "chapt" =>
    \A i \in added :
      files[i].hash # "None" => i = FirstEnqueuedWithHash(files[i].hash)

(* ---- directories that cannot be listed ---- *)
\* The folders the walk reaches: neither they nor a folder above them fails
\* to list.
Visible ==
  {d \in dirs : \A k \in 0..Len(d) : SubSeq(d, 1, k) \notin unreadable}

RECURSIVE RollupAll(_, _)
\* The parent-aggregation loop over the list todo.
RollupAll(fd, todo) ==
  IF todo = <<>> THEN fd
  ELSE RollupAll(RollupStep(fd, Head(todo)), Tail(todo))

\* folder_durations at the end of traverse_folder on the tree that consists
\* of the folders V and nothing else.
TraverseResult(V) ==
  LET keys   == {PathOf(d) : d \in V}
      direct == [p \in keys |->
                   process_folder(content[CHOOSE d \in V : PathOf(d) = p])]
  IN RollupAll(direct, SortByDepthDesc(SortedPaths(keys)))

\* traverse_folder has written its report or can take a step.
Gen4NotStuck ==
  \/ g4pc \in {"report", "done"}
  \/ ENABLED (WalkSubmit \/ TaskStart \/ TaskFinish \/ Collect \/ Sort \/ Rollup)

\* C12: a subdirectory that cannot be listed does not stop the run, and every
\* other directory's total is what it is on the tree without that
\* subdirectory: gen4 ends with the values and the rows of the tree made of
\* the folders the walk reaches; the threaded scanner never handles a file of
\* the unreadable folder, has no entry for it, and reports what it reports
\* when only the remaining file is there.
C12_UnreadableSubdirAsAbsent ==
  /\ script = "gen4" =>
       /\ ~AllReadable => Gen4NotStuck
       /\ Gen4Done =>
            /\ folder_durations = TraverseResult(Visible)
            /\ rows = ReportRows(folder_durations, folder_path)
  /\ script = "chapt" =>
       /\ added \subseteq EnqueuedFiles
       /\ \A F \in unreadable : F \notin DOMAIN results
       /\ (ChaptReported /\ Cardinality(EnqueuedFiles) <= 1) =>
            /\ results = OneThreadReport.results
            /\ order = OneThreadReport.order

\* The run is over with folder A unreadable: A and A/B have no entry, the
\* root and C have theirs.
C12_Witness ==
  /\ Gen4Done /\ folder_path = <<"root">>
  /\ unreadable = {<<"A">>}
  /\ <<"A", "B">> \in dirs /\ <<"C">> \in dirs
  /\ content[<<"A">>] # <<>> /\ content[<<"A", "B">>] # <<>>
  /\ DOMAIN folder_durations = {<<"root">>, <<"root", SEP, "C">>}
  /\ folder_durations[<<"root">>] = 46

\* The name under which a folder's row is written.
RowName(d) == StripSep(Replace(PathOf(d), folder_path))

\* C13: every directory the walk had to skip because it could not be read
\* has an entry in what the run writes: a row of gen4's log and CSV, a line
\* of the threaded scanner's report.
C13_SkippedDirsRecorded ==
  /\ Gen4Done =>
       \A d \in unreadable \ {<<>>} :
         \E i \in DOMAIN rows : rows[i].name = RowName(d)
  /\ ChaptReported =>
       \A F \in unreadable \ {"root"} : \E i \in DOMAIN order : order[i] = F

\* C14: with a root that does not exist or cannot be read the run does not
\* finish normally: gen4 never has its report written, the threaded scanner
\* never prints one.
C14_UnreadableRootFails ==
  /\ (script = "gen4" /\ <<>> \in unreadable) => g4pc # "done"
  /\ (script = "chapt" /\ "root" \in unreadable) => mainpc # "reported"

\* A root that holds no file and no subfolder, and can be listed.
EmptyRoot ==
  script = "gen4" /\ dirs = {<<>>} /\ content[<<>>] = <<>> /\ AllReadable

\* C15 as stated: for an empty root the run completes, the grand total is 0
\* and the log and the CSV hold no row after the header.
C15_EmptyRootNoRows ==
  EmptyRoot =>
    /\ Gen4NotStuck
    /\ g4pc = "done" =>
         /\ Get(folder_durations, folder_path) = 0
         /\ rows = <<>>

\* C15 as amended: for an empty root the run completes, the grand total is 0
\* and the log and the CSV hold exactly one row, the root's own, with an
\* empty name and 0 hours 0 minutes 0 seconds.
C15_EmptyRootOneRow ==
  EmptyRoot =>
    /\ Gen4NotStuck
    /\ g4pc = "done" =>
         /\ Get(folder_durations, folder_path) = 0
         /\ rows = << [name |-> <<>>,
                       duration |-> [hours |-> 0, minutes |-> 0, secs |-> 0]] >>

C15_Witness == EmptyRoot /\ g4pc = "done" /\ Len(rows) = 1

(* ---- folders without files ---- *)
\* In walk order the first folder is the root and the others lie below it.
NmChildren(i) == IF i = 1 THEN 2..Len(nmFolders) ELSE {}

C17_Gen3RootTotal ==
  (script = "gen3" /\ g3pc = "done") =>
    g3_total_duration = SumSet(dirs, [d \in dirs |-> DirectSeconds(d)])

(* ---- order of the roll-up and of the walk ---- *)
\* The folders the roll-up loop has handled.
RolledUp == {sorted_folders[j] : j \in 1..rollIdx}

\* The keys of the child folders of the folder with key p.
ChildKeys(p) ==
  {PathOf(c) : c \in {x \in Visible :
                        \E d \in Visible : PathOf(d) = p /\ IsParent(d, x)}}

C20_WalkBeforeDispatch ==
  /\ (script = "gen4" /\ walkStack # <<>>) => futures = <<>>
  /\ (script = "nemulti" /\ nmpc = "walk") => nmFutures = <<>>

\* C20 as amended: tasks are submitted while os.walk is still enumerating,
\* each for a folder the walk has already yielded, but no result is
\* collected and no folder total is recorded until os.walk has enumerated
\* the whole tree.
C20_WalkBeforeCollect ==
  /\ (script = "gen4" /\ walkStack # <<>>) =>
       /\ collected = 0 /\ folder_durations = EmptyMap
       /\ \A i \in DOMAIN futures :
            \A j \in DOMAIN walkStack : futures[i].root # walkStack[j].path
  /\ (script = "nemulti" /\ nmpc = "walk") =>
       /\ nmCollected = 0 /\ nm_folder_durations = EmptyMap
       /\ \A i \in DOMAIN nmFutures : nmFutures[i].folder < nmNext

\* The walk of gen4 is not over and a submitted task has already returned.
C20_Witness ==
  /\ script = "gen4" /\ walkStack # <<>>
  /\ \E i \in DOMAIN futures : futures[i].state = "done" /\ futures[i].result > 0

(* ---- the probes of the sequential scanner ---- *)
\* C21: within one run of deepchat's scan_folder each file is probed at most
\* once, and the duration the duplicates log shows for a file is the value
\* that was added to its folder and to the total.
C21_ProbedOnce ==
  script = "deepchat" =>
    \A i \in DOMAIN files :
      /\ probes[i] <= 1
      /\ i \in DOMAIN logged => logged[i] = probe_duration(files[i])

\* C22: a probe that was started can always come back: a call that does not
\* return on its own is cut off, so the scan is never left waiting for it.
C22_ProbeAlwaysReturns ==
  (script = "deepchat" /\ sqpc = "probing") => ENABLED ProbeReturn

\* The files the walk loop hashed.
Hashed ==
  {i \in DOMAIN files :
     \E h \in DOMAIN file_hashes :
       \E j \in DOMAIN file_hashes[h] : file_hashes[h][j] = i}

\* C24: the sequential scanner hashes and probes a file exactly when its
\* name, compared without regard to case, ends in .mp4 or .mov.
C24_ExtensionCaseInsensitive ==
  (script = "deepchat" /\ sqpc = "done") =>
    \A i \in DOMAIN files : i \in Hashed <=> Lower(exts[i]) \in {".mp4", ".mov"}

(* ---- the shared map of the threaded scanner ---- *)
\* scan_folder of the threaded scanner has returned.
ChaptReturned == script = "chapt" /\ mainpc \in {"returned", "reported"}

\* C25: when scan_folder returns, results[folder] is the sum of the probed
\* durations of exactly the files of that folder that were not skipped as
\* duplicates: every enqueued file was added or skipped for a file of equal
\* hash that was added, and no addition was lost or applied twice.
C25_NoLostUpdate ==
  ChaptReturned =>
    /\ \A F \in {"X", "Y"} : Get(results, F) = AddedSeconds(F)
    /\ \A i \in EnqueuedFiles :
         i \in added \/ \E j \in added : j # i /\ files[j].hash = files[i].hash
    /\ DOMAIN results = {files[i].folder : i \in added}

\* Two threads have run and two files of folder Y were both added.
C25_Witness ==
  /\ ChaptReturned /\ numThreads = 2
  /\ Cardinality({i \in added : files[i].folder = "Y"}) = 2
  /\ results["Y"] > 0

(* ---- formatting ---- *)
\* The parts h, m, s of a printed duration of t tenths of a second are in
\* range and add up to the whole seconds of t.
TruncatedHMS(p, t) ==
  /\ p.hours >= 0
  /\ 0 <= p.minutes /\ p.minutes <= 59
  /\ 0 <= p.secs /\ p.secs <= 59
  /\ 3600 * p.hours + 60 * p.minutes + p.secs = t \div 10

\* C23: for every duration d >= 0 the H, M and S of format_time_hms and of
\* format_duration satisfy 0 <= M <= 59, 0 <= S <= 59 and
\* 3600 H + 60 M + S = floor(d).
C23_FormatTruncates ==
  script = "format" =>
    /\ "format_time_hms" \in fmt_called => TruncatedHMS(fmt_hms, fmt_seconds)
    /\ "format_duration" \in fmt_called => TruncatedHMS(fmt_duration, fmt_seconds)

\* 1 h 59 min 59.9 s was formatted by both functions.
C23_Witness ==
  /\ script = "format" /\ fmt_seconds = 71999
  /\ fmt_called = {"format_time_hms", "format_duration"}
  /\ fmt_hms = [hours |-> 1, minutes |-> 59, secs |-> 59]
  /\ fmt_duration = fmt_hms

(* ---- the Google Drive scanner ---- *)
RECURSIVE VideoSeconds(_)
\* The seconds of every video under a Drive folder with the given entries.
VideoSeconds(entries) ==
  SumSeq([i \in DOMAIN entries |->
    IF entries[i].mimeType = "application/vnd.google-apps.folder"
      THEN VideoSeconds(entries[i].children)
    ELSE IF entries[i].mimeType \in {"video/mp4", "video/quicktime"}
      THEN entries[i].duration
    ELSE 0])

\* C26: list_files_in_folder returns every entry of the folder, however
\* many pages the Drive API splits them into, and the total of
\* traverse_folder covers every video under the root folder.
C26_AllPagesListed ==
  (script = "gdrive" /\ gdpc \in {"report", "done"}) =>
    /\ list_files_in_folder(gdListing, gdPageSize) = gdListing
    /\ gd_total_duration = VideoSeconds(gdListing)

(* ---- the YouTube uploader ---- *)
\* C27: once cancel was requested (running is False), run starts no further
\* video upload.
C27_NoUploadAfterCancel ==
  [][(script = "youtube" /\ ~running) => ~(ytpc # "insert" /\ ytpc' = "insert")]_vars

\* C28: over any sequence of runs resumed from resume_state.txt no video is
\* uploaded twice, no run starts beyond a video that is not on YouTube, and
\* when the state file names the end of the list every video is there
\* exactly once.
C28_ResumeExact ==
  script = "youtube" =>
    /\ \A v \in DOMAIN on_youtube : on_youtube[v] <= 1
    /\ \A v \in DOMAIN on_youtube : v < yt_i => on_youtube[v] >= 1
    /\ resume_file = total_videos => \A v \in DOMAIN on_youtube : on_youtube[v] = 1

\* C29: finished_signal(True) is emitted only by a run that uploaded every
\* video from its start index to the end of the list, and a run in which an
\* upload raised reports failure.
C29_SuccessOnlyWhenAllUploaded ==
  (script = "youtube" /\ ytpc = "finished") =>
    /\ finished_signal = "True" =>
         /\ start_index + uploaded_count = total_videos
         /\ \A v \in DOMAIN on_youtube : v >= start_index => on_youtube[v] >= 1
    /\ upload_raised => finished_signal = "False"

(* ---- the converter ---- *)
\* C30: after an aborted folder conversion was cleaned up, the output of
\* every video that was converted in full is still in place, and no output
\* of a conversion that did not complete is left.
C30_CleanupKeepsCompleted ==
  (script = "convert" /\ cvpc = "done" /\ is_aborted) =>
    \A v \in DOMAIN output :
      /\ v \in completed => output[v] = "complete"
      /\ v \notin completed => output[v] = "none"

====
